---------------------------- MODULE Spec2Model ----------------------------
(***************************************************************************)
(* Submission-admission gate of gasoradar3                                 *)
(* (src/app/services/protection_service.py): reCAPTCHA verification,       *)
(* in-memory sliding-window rate limiting, fallback price validation and   *)
(* the two pipelines validate_price_report / validate_review.              *)
(*                                                                         *)
(* Time is the POSIX timestamp of datetime.utcnow() in whole seconds.      *)
(* Prices are in centavos (15.0 pesos = 1500), scores in hundredths        *)
(* (0.5 = 50).  A message is a record [text, a, b]: the fixed text of the  *)
(* f-string (written without accents) and the (at most two) numbers        *)
(* formatted into it.                                                      *)
(***************************************************************************)
EXTENDS Integers, Sequences, FiniteSets, TLC

(***************************************************************************)
(* Bounds of the model                                                     *)
(***************************************************************************)
\* number of clock advances in a behaviour
MaxTicks == 2
\* number of direct rate-limit checks recorded in SpecRL
MaxChecks == 4
\* number of request slots (concurrently evaluated submissions)
NumReqs == 2
\* number of submissions in a behaviour of Spec
MaxSubmits == 3

(***************************************************************************)
(* Program constants                                                       *)
(***************************************************************************)
\* settings.price_reports_per_hour
price_reports_per_hour == 3
\* settings.reviews_per_day
reviews_per_day == 2
\* cutoff = now - 3600
PriceWindowSecs == 3600
\* cutoff = now - 86400
ReviewWindowSecs == 86400

IPs == {"1.2.3.4", "5.6.7.8"}

\* SpecRL: the clock advances by one second, one hour or one day at a time
TickSteps == {1, PriceWindowSecs, ReviewWindowSecs}
\* Spec: the clock advances by just over an hour at a time
PipelineTickSteps == {PriceWindowSecs + 1}

VARIABLES
    clock,            \* datetime.utcnow().timestamp()
    nticks,           \* clock advances so far
    _price_reports,   \* self._price_reports: ip -> deque of timestamps
    _reviews,         \* self._reviews: ip -> deque of timestamps
    recaptcha_secret, \* self.recaptcha_secret ("" when not configured)
    req,              \* per request slot: the submission being evaluated
    nsubmits,         \* submissions received so far
    last,             \* the evaluation that returned last
    verif,            \* SpecVerify: one call of verify_recaptcha
    rl_log,           \* SpecRL: the rate-limit checks made so far
    gas_prices,       \* the rows of the gas_prices table
    pval,             \* SpecPrice: one call of validate_price_dynamically
    arrived,          \* SpecConc: per slot, the evaluations returned before
                      \* its request arrived
    db                \* SpecHandler: the rows written by the request handlers
                      \* and the status of the last response

vars == <<clock, nticks, _price_reports, _reviews, recaptcha_secret, req,
          nsubmits, last, verif, rl_log, gas_prices, pval, arrived, db>>

Msg(text, a, b) == [text |-> text, a |-> a, b |-> b]

(***************************************************************************)
(* Rate limiter                                                            *)
(***************************************************************************)
\* pruning that clears the whole deque once its oldest entry has expired
PruneWindow_clear(dq, cutoff) ==
    IF dq # <<>> /\ Head(dq) < cutoff THEN <<>> ELSE dq

\* pruning that pops at most one entry (if for while)
PruneWindow_once(dq, cutoff) ==
    IF dq # <<>> /\ Head(dq) < cutoff THEN Tail(dq) ELSE dq

\* pruning that also pops the entry at the cutoff itself (<= for <)
RECURSIVE PruneWindow_nonstrict(_, _)
PruneWindow_nonstrict(dq, cutoff) ==
    IF dq # <<>> /\ Head(dq) <= cutoff
    THEN PruneWindow_nonstrict(Tail(dq), cutoff)
    ELSE dq

\* while dq and dq[0] < cutoff: dq.popleft()
RECURSIVE PruneWindow(_, _)
PruneWindow(dq, cutoff) ==
    IF dq # <<>> /\ Head(dq) < cutoff
    THEN PruneWindow(Tail(dq), cutoff)
    ELSE dq

\* check_price_report_rate_limit admitting at count == limit (> for >=)
check_price_report_rate_limit_gt(wins, ip, now) ==
    LET pruned == PruneWindow(wins[ip], now - PriceWindowSecs)
        current_count == Len(pruned)
    IN  IF current_count > price_reports_per_hour
        THEN [ok |-> FALSE,
              msg |-> Msg("Limite excedido: {a}/{b} reportes por hora",
                          current_count, price_reports_per_hour),
              count |-> current_count,
              wins |-> [wins EXCEPT ![ip] = pruned]]
        ELSE [ok |-> TRUE,
              msg |-> Msg("Rate limit OK", 0, 0),
              count |-> current_count,
              wins |-> [wins EXCEPT ![ip] = Append(pruned, now)]]

\* check_price_report_rate_limit whose message counts the rejected request too
check_price_report_rate_limit_counts_self(wins, ip, now) ==
    LET pruned == PruneWindow(wins[ip], now - PriceWindowSecs)
        current_count == Len(pruned)
    IN  IF current_count >= price_reports_per_hour
        THEN [ok |-> FALSE,
              msg |-> Msg("Limite excedido: {a}/{b} reportes por hora",
                          current_count + 1, price_reports_per_hour),
              count |-> current_count,
              wins |-> [wins EXCEPT ![ip] = pruned]]
        ELSE [ok |-> TRUE,
              msg |-> Msg("Rate limit OK", 0, 0),
              count |-> current_count,
              wins |-> [wins EXCEPT ![ip] = Append(pruned, now)]]

\* check_price_report_rate_limit(ip) at clock reading now, on the table wins
check_price_report_rate_limit(wins, ip, now) ==
    LET cutoff == now - PriceWindowSecs
        pruned == PruneWindow(wins[ip], cutoff)
        current_count == Len(pruned)
    IN  IF current_count >= price_reports_per_hour
        THEN [ok |-> FALSE,
              msg |-> Msg("Limite excedido: {a}/{b} reportes por hora",
                          current_count, price_reports_per_hour),
              count |-> current_count,
              wins |-> [wins EXCEPT ![ip] = pruned]]
        ELSE [ok |-> TRUE,
              msg |-> Msg("Rate limit OK", 0, 0),
              count |-> current_count,
              wins |-> [wins EXCEPT ![ip] = Append(pruned, now)]]

\* check_review_rate_limit on one deque shared by all addresses
check_review_rate_limit_shared(wins, ip, now) ==
    LET pruned == PruneWindow(wins[ip], now - ReviewWindowSecs)
        current_count == Len(pruned)
    IN  IF current_count >= reviews_per_day
        THEN [ok |-> FALSE,
              msg |-> Msg("Limite excedido: {a}/{b} resenas por dia",
                          current_count, reviews_per_day),
              count |-> current_count,
              wins |-> [a \in DOMAIN wins |-> pruned]]
        ELSE [ok |-> TRUE,
              msg |-> Msg("Rate limit OK", 0, 0),
              count |-> current_count,
              wins |-> [a \in DOMAIN wins |-> Append(pruned, now)]]

\* check_review_rate_limit that records with appendleft
check_review_rate_limit_appendleft(wins, ip, now) ==
    LET pruned == PruneWindow(wins[ip], now - ReviewWindowSecs)
        current_count == Len(pruned)
    IN  IF current_count >= reviews_per_day
        THEN [ok |-> FALSE,
              msg |-> Msg("Limite excedido: {a}/{b} resenas por dia",
                          current_count, reviews_per_day),
              count |-> current_count,
              wins |-> [wins EXCEPT ![ip] = pruned]]
        ELSE [ok |-> TRUE,
              msg |-> Msg("Rate limit OK", 0, 0),
              count |-> current_count,
              wins |-> [wins EXCEPT ![ip] = <<now>> \o pruned]]

\* check_review_rate_limit recording the event before the limit test
check_review_rate_limit_record_first(wins, ip, now) ==
    LET pruned == PruneWindow(wins[ip], now - ReviewWindowSecs)
        current_count == Len(pruned)
    IN  [ok |-> current_count < reviews_per_day,
         msg |-> IF current_count < reviews_per_day
                 THEN Msg("Rate limit OK", 0, 0)
                 ELSE Msg("Limite excedido: {a}/{b} resenas por dia",
                          current_count, reviews_per_day),
         count |-> current_count,
         wins |-> [wins EXCEPT ![ip] = Append(pruned, now)]]

\* check_review_rate_limit that rejects only above the limit
check_review_rate_limit_gt(wins, ip, now) ==
    LET cutoff == now - ReviewWindowSecs
        pruned == PruneWindow(wins[ip], cutoff)
        current_count == Len(pruned)
    IN  IF current_count > reviews_per_day
        THEN [ok |-> FALSE,
              msg |-> Msg("Limite excedido: {a}/{b} resenas por dia",
                          current_count, reviews_per_day),
              count |-> current_count,
              wins |-> [wins EXCEPT ![ip] = pruned]]
        ELSE [ok |-> TRUE,
              msg |-> Msg("Rate limit OK", 0, 0),
              count |-> current_count,
              wins |-> [wins EXCEPT ![ip] = Append(pruned, now)]]

\* check_review_rate_limit(ip) at clock reading now, on the table wins
check_review_rate_limit(wins, ip, now) ==
    LET cutoff == now - ReviewWindowSecs
        pruned == PruneWindow(wins[ip], cutoff)
        current_count == Len(pruned)
    IN  IF current_count >= reviews_per_day
        THEN [ok |-> FALSE,
              msg |-> Msg("Limite excedido: {a}/{b} resenas por dia",
                          current_count, reviews_per_day),
              count |-> current_count,
              wins |-> [wins EXCEPT ![ip] = pruned]]
        ELSE [ok |-> TRUE,
              msg |-> Msg("Rate limit OK", 0, 0),
              count |-> current_count,
              wins |-> [wins EXCEPT ![ip] = Append(pruned, now)]]

(***************************************************************************)
(* Attestation: verify_recaptcha                                           *)
(***************************************************************************)
\* form_data.get("g-recaptcha-response") when the field is missing
PyNone == "<None>"
Tokens == {PyNone, "", "tok-1"}
\* not token
Falsy(token) == token \in {PyNone, ""}

Secrets == {"", "secret-key"}

\* response.status == 200
HttpOK == 200
\* score < 0.5, in hundredths
ScoreThreshold == 50

\* What the HTTP exchange with the verification service can produce:
\* session.post raises aiohttp.ClientError, the 10 s total timeout fires, or
\* a response arrives with a status and a body.  The body is not JSON
\* (response.json() raises), JSON that is no object (result.get raises), or
\* an object {success?, score?} of the reply shape.
Outcome(kind, status, body, success, has_score, score) ==
    [kind |-> kind, status |-> status, body |-> body, success |-> success,
     has_score |-> has_score, score |-> score]

Outcomes ==
    {Outcome("client_error", 0, "none", "absent", FALSE, 0),
     Outcome("timeout", 0, "none", "absent", FALSE, 0)}
    \cup {Outcome("response", st, b, "absent", FALSE, 0) :
            st \in {HttpOK, 403, 500}, b \in {"not_json", "not_object"}}
    \cup {Outcome("response", st, "object", su, FALSE, 0) :
            st \in {HttpOK, 403, 500}, su \in {"absent", "true", "false"}}
    \cup {Outcome("response", st, "object", su, TRUE, sc) :
            st \in {HttpOK, 403, 500}, su \in {"absent", "true", "false"},
            sc \in {0, ScoreThreshold - 1, ScoreThreshold, 100}}

Returned(valid, msg) == [raised |-> FALSE, exc |-> "", valid |-> valid, msg |-> msg]
Raised(exc) == [raised |-> TRUE, exc |-> exc, valid |-> FALSE, msg |-> Msg("", 0, 0)]

\* the classes caught by "except Exception"; asyncio.CancelledError derives
\* from BaseException and is not among them
ExceptionClasses ==
    {"ClientError", "TimeoutError", "ContentTypeError", "AttributeError",
     "TypeError"}

\* the try body that accepts whenever success is true, whatever the score
recaptcha_try_body_no_score(o) ==
    IF o.kind = "client_error" THEN Raised("ClientError")
    ELSE IF o.kind = "timeout" THEN Raised("TimeoutError")
    ELSE IF o.kind = "cancelled" THEN Raised("CancelledError")
    ELSE IF o.status = HttpOK
    THEN IF o.body = "not_json" THEN Raised("ContentTypeError")
         ELSE IF o.body = "not_object" THEN Raised("AttributeError")
         ELSE IF o.success = "true"
              THEN Returned(TRUE, Msg("CAPTCHA verificado", 0, 0))
              ELSE Returned(FALSE, Msg("CAPTCHA invalido", 0, 0))
    ELSE Returned(FALSE, Msg("Error verificando CAPTCHA", 0, 0))

\* the body of the try block of verify_recaptcha
recaptcha_try_body(o) ==
    IF o.kind = "client_error" THEN Raised("ClientError")
    ELSE IF o.kind = "timeout" THEN Raised("TimeoutError")
    ELSE IF o.kind = "cancelled" THEN Raised("CancelledError")
    ELSE IF o.status = HttpOK
    THEN \* result = await response.json()
         IF o.body = "not_json" THEN Raised("ContentTypeError")
         \* success = result.get("success", False)
         ELSE IF o.body = "not_object" THEN Raised("AttributeError")
         ELSE IF o.success = "true"
              THEN \* score = result.get("score")
                   IF o.has_score /\ o.score < ScoreThreshold
                   THEN Returned(FALSE, Msg("Score CAPTCHA muy bajo", 0, 0))
                   ELSE Returned(TRUE, Msg("CAPTCHA verificado", 0, 0))
              ELSE Returned(FALSE, Msg("CAPTCHA invalido", 0, 0))
    ELSE Returned(FALSE, Msg("Error verificando CAPTCHA", 0, 0))

\* try/except that catches only the transport errors
verify_recaptcha_response_client_errors_only(o) ==
    LET r == recaptcha_try_body(o) IN
    IF r.raised /\ r.exc \in {"ClientError", "TimeoutError"}
    THEN Returned(FALSE, Msg("Error verificando CAPTCHA", 0, 0))
    ELSE r

\* try/except that lets the timeout of the call through
verify_recaptcha_response_timeout_escapes(o) ==
    LET r == recaptcha_try_body(o) IN
    IF r.raised /\ r.exc \in ExceptionClasses \ {"TimeoutError"}
    THEN Returned(FALSE, Msg("Error verificando CAPTCHA", 0, 0))
    ELSE r

\* try: ... except Exception: return False, "Error verificando CAPTCHA"
verify_recaptcha_response(o) ==
    LET r == recaptcha_try_body(o) IN
    IF r.raised /\ r.exc \in ExceptionClasses
    THEN Returned(FALSE, Msg("Error verificando CAPTCHA", 0, 0))
    ELSE r

\* the two early returns with the bypass tested first
verify_recaptcha_precheck_bypass_first(token, secret) ==
    IF secret = ""
    THEN [call |-> FALSE, res |-> Returned(TRUE, Msg("Bypassed in development", 0, 0))]
    ELSE IF Falsy(token)
    THEN [call |-> FALSE, res |-> Returned(FALSE, Msg("Token CAPTCHA requerido", 0, 0))]
    ELSE [call |-> TRUE, res |-> Returned(FALSE, Msg("", 0, 0))]

\* the bypass that still posts to the service
verify_recaptcha_precheck_no_bypass(token, secret) ==
    IF Falsy(token)
    THEN [call |-> FALSE, res |-> Returned(FALSE, Msg("Token CAPTCHA requerido", 0, 0))]
    ELSE [call |-> TRUE, res |-> Returned(FALSE, Msg("", 0, 0))]

\* the two early returns of verify_recaptcha; call: the service is posted to
verify_recaptcha_precheck(token, secret) ==
    IF Falsy(token)
    THEN [call |-> FALSE, res |-> Returned(FALSE, Msg("Token CAPTCHA requerido", 0, 0))]
    ELSE IF secret = ""
    THEN [call |-> FALSE, res |-> Returned(TRUE, Msg("Bypassed in development", 0, 0))]
    ELSE [call |-> TRUE, res |-> Returned(FALSE, Msg("", 0, 0))]

\* verify_recaptcha(token) when the service, if posted to, produces o
verify_recaptcha(token, secret, o) ==
    LET pre == verify_recaptcha_precheck(token, secret) IN
    IF pre.call
    THEN [calls |-> 1, res |-> verify_recaptcha_response(o)]
    ELSE [calls |-> 0, res |-> pre.res]

(***************************************************************************)
(* Content checks                                                          *)
(***************************************************************************)
\* settings.fallback_price_ranges, in centavos
fallback_price_ranges ==
    [magna |-> [min |-> 1500, max |-> 3500],
     premium |-> [min |-> 1800, max |-> 4000],
     diesel |-> [min |-> 1600, max |-> 3800]]

\* str.lower() on the fuel types of the model
Lower(s) ==
    CASE s = "Magna" -> "magna"
      [] s = "DIESEL" -> "diesel"
      [] OTHER -> s

\* settings.price_tolerance_percent
price_tolerance_percent == 15
\* settings.min_samples_for_validation
min_samples_for_validation == 5
\* settings.price_data_freshness_days
price_data_freshness_days == 30

\* what validate_price_dynamically returns, or the exception it lets through
PriceDecision(valid, msg, info) ==
    [raised |-> FALSE, exc |-> "", valid |-> valid, msg |-> msg, info |-> info]
PriceRaised(exc) ==
    [raised |-> TRUE, exc |-> exc, valid |-> FALSE, msg |-> Msg("", 0, 0),
     info |-> <<>>]

\* _validate_with_fallback with the two ends of the range excluded
_validate_with_fallback_exclusive(fuel_type, reported_price) ==
    IF Lower(fuel_type) \notin DOMAIN fallback_price_ranges
    THEN PriceDecision(TRUE,
             Msg("No hay limites definidos para este combustible", 0, 0), <<>>)
    ELSE LET ranges == fallback_price_ranges[Lower(fuel_type)]
             is_valid == ranges.min < reported_price /\ reported_price < ranges.max
             validation_info ==
                 [fallback_mode |-> TRUE,
                  valid_range |-> [min |-> ranges.min, max |-> ranges.max],
                  reported_price |-> reported_price]
         IN  IF is_valid
             THEN PriceDecision(TRUE, Msg("Precio valido (modo fallback)", 0, 0),
                                validation_info)
             ELSE PriceDecision(FALSE,
                      Msg("Precio fuera del rango fallback (${a} - ${b})",
                          ranges.min, ranges.max), validation_info)

\* _validate_with_fallback that rejects a fuel type without a range
_validate_with_fallback_known_only(fuel_type, reported_price) ==
    IF Lower(fuel_type) \notin DOMAIN fallback_price_ranges
    THEN PriceDecision(FALSE,
             Msg("No hay limites definidos para este combustible", 0, 0), <<>>)
    ELSE LET ranges == fallback_price_ranges[Lower(fuel_type)]
             is_valid == ranges.min <= reported_price /\ reported_price <= ranges.max
             validation_info ==
                 [fallback_mode |-> TRUE,
                  valid_range |-> [min |-> ranges.min, max |-> ranges.max],
                  reported_price |-> reported_price]
         IN  IF is_valid
             THEN PriceDecision(TRUE, Msg("Precio valido (modo fallback)", 0, 0),
                                validation_info)
             ELSE PriceDecision(FALSE,
                      Msg("Precio fuera del rango fallback (${a} - ${b})",
                          ranges.min, ranges.max), validation_info)

\* _validate_with_fallback(fuel_type, reported_price); the diagnostics of a
\* fuel type without a range are the empty dict
_validate_with_fallback(fuel_type, reported_price) ==
    IF Lower(fuel_type) \notin DOMAIN fallback_price_ranges
    THEN PriceDecision(TRUE,
             Msg("No hay limites definidos para este combustible", 0, 0), <<>>)
    ELSE LET ranges == fallback_price_ranges[Lower(fuel_type)]
             is_valid == ranges.min <= reported_price /\ reported_price <= ranges.max
             validation_info ==
                 [fallback_mode |-> TRUE,
                  valid_range |-> [min |-> ranges.min, max |-> ranges.max],
                  reported_price |-> reported_price]
         IN  IF is_valid
             THEN PriceDecision(TRUE, Msg("Precio valido (modo fallback)", 0, 0),
                                validation_info)
             ELSE PriceDecision(FALSE,
                      Msg("Precio fuera del rango fallback (${a} - ${b})",
                          ranges.min, ranges.max), validation_info)

\* a row of gas_prices as the query reads it: age_days is the age of
\* created_at in whole days
PriceRow(fuel_type, price, age_days, is_current, validation_status) ==
    [fuel_type |-> fuel_type, price |-> price, age_days |-> age_days,
     is_current |-> is_current, validation_status |-> validation_status]

\* select(GasPrice.price).where(fuel_type == ..., created_at >= cutoff_date,
\* is_current == True, validation_status == "validated")
RECURSIVE query_prices(_, _)
query_prices(rows, fuel_type) ==
    IF rows = <<>> THEN <<>>
    ELSE LET row == Head(rows)
             rest == query_prices(Tail(rows), fuel_type)
         IN  IF /\ row.fuel_type = fuel_type
                /\ row.age_days <= price_data_freshness_days
                /\ row.is_current
                /\ row.validation_status = "validated"
             THEN <<row.price>> \o rest
             ELSE rest

RECURSIVE Sum(_)
Sum(seq) == IF seq = <<>> THEN 0 ELSE Head(seq) + Sum(Tail(seq))

\* round(x, 2) of the quotient num / den, in centavos
Round(num, den) == (2 * num + den) \div (2 * den)

\* "async with get_async_session() as session": get_async_session is an
\* async generator function without @asynccontextmanager, the object it
\* returns has no __aenter__, and entering the block raises TypeError
get_async_session_enter == "TypeError"

\* the body of the try block of validate_price_dynamically (region = None).
\* min_valid <= reported_price <= max_valid with min_valid = mean * 0.85 and
\* max_valid = mean * 1.15 is compared exactly, multiplied out by 100 * n.
validate_price_try_body(fuel_type, reported_price) ==
    IF get_async_session_enter # "entered"
    THEN PriceRaised(get_async_session_enter)
    ELSE
    LET prices == query_prices(gas_prices, Lower(fuel_type))
        n == Len(prices)
    IN  IF n < min_samples_for_validation
        THEN _validate_with_fallback(fuel_type, reported_price)
        ELSE
        LET total == Sum(prices)
            is_valid ==
                /\ total * (100 - price_tolerance_percent) <= reported_price * 100 * n
                /\ reported_price * 100 * n <= total * (100 + price_tolerance_percent)
            min_valid == Round(total * (100 - price_tolerance_percent), 100 * n)
            max_valid == Round(total * (100 + price_tolerance_percent), 100 * n)
            validation_info ==
                [market_average |-> Round(total, n),
                 tolerance_percent |-> price_tolerance_percent,
                 valid_range |-> [min |-> min_valid, max |-> max_valid],
                 samples_count |-> n,
                 reported_price |-> reported_price]
        IN  IF is_valid
            THEN PriceDecision(TRUE, Msg("Precio dentro del rango de mercado", 0, 0),
                               validation_info)
            ELSE PriceDecision(FALSE,
                     Msg("Precio fuera del rango valido (${a} - ${b})",
                         min_valid, max_valid), validation_info)

\* validate_price_dynamically whose except clause catches database errors only
validate_price_dynamically_db_errors_only(fuel_type, reported_price) ==
    LET r == validate_price_try_body(fuel_type, reported_price) IN
    IF r.raised /\ r.exc \in {"OperationalError"}
    THEN _validate_with_fallback(fuel_type, reported_price)
    ELSE r

\* validate_price_dynamically(fuel_type, reported_price):
\* try: ... except Exception: return self._validate_with_fallback(...)
validate_price_dynamically(fuel_type, reported_price) ==
    LET r == validate_price_try_body(fuel_type, reported_price) IN
    IF r.raised /\ r.exc \in ExceptionClasses
    THEN _validate_with_fallback(fuel_type, reported_price)
    ELSE r

\* str.strip(): drop the blanks at both ends of a sequence of characters
RECURSIVE LStrip(_)
LStrip(str) == IF str # <<>> /\ Head(str) = " " THEN LStrip(Tail(str)) ELSE str
RECURSIVE RStrip(_)
RStrip(str) ==
    IF str # <<>> /\ str[Len(str)] = " "
    THEN RStrip(SubSeq(str, 1, Len(str) - 1))
    ELSE str
Strip(str) == RStrip(LStrip(str))

\* len(name) < 2
MinNameLen == 2
\* len(comment) < 10
MinCommentLen == 10
\* 1 <= rating_int <= 5
MinRating == 1
MaxRating == 5

(***************************************************************************)
(* Submissions                                                             *)
(***************************************************************************)
\* form_data of either pipeline.  price_ok: float(reported_price) succeeds;
\* rating_ok: int(rating) succeeds.
Form(kind, token, fuel_type, price_ok, price, name, comment, rating_ok, rating) ==
    [kind |-> kind, token |-> token, fuel_type |-> fuel_type,
     price_ok |-> price_ok, price |-> price, name |-> name,
     comment |-> comment, rating_ok |-> rating_ok, rating |-> rating]

PriceForm(token, fuel_type, price_ok, price) ==
    Form("price", token, fuel_type, price_ok, price, <<>>, <<>>, FALSE, 0)

ReviewForm(token, name, comment, rating_ok, rating) ==
    Form("review", token, "", FALSE, 0, name, comment, rating_ok, rating)

GoodName == <<"A", "l">>
BlankName == <<" ", "A">>
GoodComment == <<"g", "o", "o", "d", " ", "p", "r", "i", "c", "e">>
ShortComment == <<" ", "t", "o", "o", " ", "s", "h", "o", "r", "t", " ">>

Forms ==
    {PriceForm("tok-1", "Magna", TRUE, 1600),
     PriceForm("tok-1", "magna", TRUE, 4000),
     PriceForm("", "magna", TRUE, 1600),
     ReviewForm("tok-1", GoodName, GoodComment, TRUE, 5),
     ReviewForm("tok-1", BlankName, ShortComment, TRUE, 6),
     ReviewForm(PyNone, GoodName, GoodComment, TRUE, 5)}

\* the task of the request is cancelled while session.post is awaited
Cancelled == Outcome("cancelled", 0, "none", "absent", FALSE, 0)

\* the answers of the verification service the pipelines are run on
PipelineOutcomes ==
    {Outcome("timeout", 0, "none", "absent", FALSE, 0),
     Outcome("response", HttpOK, "object", "true", TRUE, ScoreThreshold)}

(***************************************************************************)
(* Pipelines                                                               *)
(***************************************************************************)
\* the verdict whose reason is the message of the gate alone
Verdict_verbatim(accepted, prefix, msg, gates, rejected_by, pr, rv) ==
    [accepted |-> accepted,
     reason |-> [prefix |-> "", text |-> msg.text, a |-> msg.a, b |-> msg.b],
     gates |-> gates, rejected_by |-> rejected_by, pr |-> pr, rv |-> rv]

\* (accepted, reason) with the gates that ran, the gate that rejected and
\* the two window tables as the evaluation leaves them
Verdict(accepted, prefix, msg, gates, rejected_by, pr, rv) ==
    [accepted |-> accepted,
     reason |-> [prefix |-> prefix, text |-> msg.text, a |-> msg.a, b |-> msg.b],
     gates |-> gates, rejected_by |-> rejected_by, pr |-> pr, rv |-> rv]

AllPassed == Msg("Todas las validaciones pasaron", 0, 0)

\* validate_price_report that checks the rate limit before it looks at the
\* answer of verify_recaptcha
validate_price_report_rate_first(form, ip, now, pr, rv, cap) ==
    LET rl == check_price_report_rate_limit(pr, ip, now) IN
    IF ~cap.valid
    THEN Verdict(FALSE, "CAPTCHA: ", cap.msg, <<"captcha">>, "captcha", rl.wins, rv)
    ELSE IF ~rl.ok
    THEN Verdict(FALSE, "Rate limit: ", rl.msg, <<"captcha", "rate">>, "rate",
                 rl.wins, rv)
    ELSE IF ~form.price_ok
    THEN Verdict(FALSE, "", Msg("Precio invalido", 0, 0),
                 <<"captcha", "rate", "content">>, "content", rl.wins, rv)
    ELSE
    LET pv == validate_price_dynamically(form.fuel_type, form.price) IN
    IF pv.raised
    THEN Verdict(FALSE, "", Msg(pv.exc, 0, 0), <<"captcha", "rate", "content">>,
                 "raised", rl.wins, rv)
    ELSE IF ~pv.valid
    THEN Verdict(FALSE, "Precio: ", pv.msg, <<"captcha", "rate", "content">>,
                 "content", rl.wins, rv)
    ELSE Verdict(TRUE, "", AllPassed, <<"captcha", "rate", "content">>, "",
                 rl.wins, rv)

\* validate_price_report that gives the slot back when the content check rejects
validate_price_report_refund(form, ip, now, pr, rv, cap) ==
    IF ~cap.valid
    THEN Verdict(FALSE, "CAPTCHA: ", cap.msg, <<"captcha">>, "captcha", pr, rv)
    ELSE
    LET rl == check_price_report_rate_limit(pr, ip, now) IN
    IF ~rl.ok
    THEN Verdict(FALSE, "Rate limit: ", rl.msg, <<"captcha", "rate">>, "rate",
                 rl.wins, rv)
    ELSE IF ~form.price_ok
    THEN Verdict(FALSE, "", Msg("Precio invalido", 0, 0),
                 <<"captcha", "rate", "content">>, "content", pr, rv)
    ELSE
    LET pv == validate_price_dynamically(form.fuel_type, form.price) IN
    IF pv.raised
    THEN Verdict(FALSE, "", Msg(pv.exc, 0, 0), <<"captcha", "rate", "content">>,
                 "raised", rl.wins, rv)
    ELSE IF ~pv.valid
    THEN Verdict(FALSE, "Precio: ", pv.msg, <<"captcha", "rate", "content">>,
                 "content", pr, rv)
    ELSE Verdict(TRUE, "", AllPassed, <<"captcha", "rate", "content">>, "",
                 rl.wins, rv)

\* validate_price_report that parses and validates the price before it
\* checks the rate limit
validate_price_report_content_first(form, ip, now, pr, rv, cap) ==
    IF ~cap.valid
    THEN Verdict(FALSE, "CAPTCHA: ", cap.msg, <<"captcha">>, "captcha", pr, rv)
    ELSE IF ~form.price_ok
    THEN Verdict(FALSE, "", Msg("Precio invalido", 0, 0),
                 <<"captcha", "content">>, "content", pr, rv)
    ELSE
    LET pv == validate_price_dynamically(form.fuel_type, form.price) IN
    IF pv.raised
    THEN Verdict(FALSE, "", Msg(pv.exc, 0, 0), <<"captcha", "content">>,
                 "raised", pr, rv)
    ELSE IF ~pv.valid
    THEN Verdict(FALSE, "Precio: ", pv.msg, <<"captcha", "content">>,
                 "content", pr, rv)
    ELSE
    LET rl == check_price_report_rate_limit(pr, ip, now) IN
    IF ~rl.ok
    THEN Verdict(FALSE, "Rate limit: ", rl.msg, <<"captcha", "content", "rate">>,
                 "rate", rl.wins, rv)
    ELSE Verdict(TRUE, "", AllPassed, <<"captcha", "content", "rate">>, "",
                 rl.wins, rv)

\* validate_price_report that takes a price it cannot parse as 0 and has it
\* validated
validate_price_report_parse_default(form, ip, now, pr, rv, cap) ==
    IF ~cap.valid
    THEN Verdict(FALSE, "CAPTCHA: ", cap.msg, <<"captcha">>, "captcha", pr, rv)
    ELSE
    LET rl == check_price_report_rate_limit(pr, ip, now) IN
    IF ~rl.ok
    THEN Verdict(FALSE, "Rate limit: ", rl.msg, <<"captcha", "rate">>, "rate",
                 rl.wins, rv)
    ELSE
    LET pv == validate_price_dynamically(form.fuel_type,
                                         IF form.price_ok THEN form.price ELSE 0)
    IN
    IF pv.raised
    THEN Verdict(FALSE, "", Msg(pv.exc, 0, 0), <<"captcha", "rate", "content">>,
                 "raised", rl.wins, rv)
    ELSE IF ~pv.valid
    THEN Verdict(FALSE, "Precio: ", pv.msg, <<"captcha", "rate", "content">>,
                 "content", rl.wins, rv)
    ELSE Verdict(TRUE, "", AllPassed, <<"captcha", "rate", "content">>, "",
                 rl.wins, rv)

\* validate_price_report from the answer cap of verify_recaptcha on.  It has
\* no try of its own: an exception of validate_price_dynamically leaves it
\* (rejected_by = "raised", no decision is returned).
validate_price_report(form, ip, now, pr, rv, cap) ==
    IF ~cap.valid
    THEN Verdict(FALSE, "CAPTCHA: ", cap.msg, <<"captcha">>, "captcha", pr, rv)
    ELSE
    LET rl == check_price_report_rate_limit(pr, ip, now) IN
    IF ~rl.ok
    THEN Verdict(FALSE, "Rate limit: ", rl.msg, <<"captcha", "rate">>, "rate",
                 rl.wins, rv)
    ELSE IF ~form.price_ok
    THEN Verdict(FALSE, "", Msg("Precio invalido", 0, 0),
                 <<"captcha", "rate", "content">>, "content", rl.wins, rv)
    ELSE
    LET pv == validate_price_dynamically(form.fuel_type, form.price) IN
    IF pv.raised
    THEN Verdict(FALSE, "", Msg(pv.exc, 0, 0), <<"captcha", "rate", "content">>,
                 "raised", rl.wins, rv)
    ELSE IF ~pv.valid
    THEN Verdict(FALSE, "Precio: ", pv.msg, <<"captcha", "rate", "content">>,
                 "content", rl.wins, rv)
    ELSE Verdict(TRUE, "", AllPassed, <<"captcha", "rate", "content">>, "",
                 rl.wins, rv)

\* step 3 of validate_review
review_content(form) ==
    LET name == Strip(form.name)
        comment == Strip(form.comment)
    IN  IF Len(name) < MinNameLen
        THEN [valid |-> FALSE, msg |-> Msg("Nombre muy corto (minimo 2 caracteres)", 0, 0)]
        ELSE IF Len(comment) < MinCommentLen
        THEN [valid |-> FALSE, msg |-> Msg("Comentario muy corto (minimo 10 caracteres)", 0, 0)]
        ELSE IF ~form.rating_ok
        THEN [valid |-> FALSE, msg |-> Msg("Calificacion invalida", 0, 0)]
        ELSE IF ~(MinRating <= form.rating /\ form.rating <= MaxRating)
        THEN [valid |-> FALSE, msg |-> Msg("Calificacion debe estar entre 1 y 5", 0, 0)]
        ELSE [valid |-> TRUE, msg |-> AllPassed]

\* validate_review that still checks the content after the rate limit has
\* rejected, and returns the content check's reason when that rejects too
validate_review_no_fail_fast(form, ip, now, pr, rv, cap) ==
    IF ~cap.valid
    THEN Verdict(FALSE, "CAPTCHA: ", cap.msg, <<"captcha">>, "captcha", pr, rv)
    ELSE
    LET rl == check_review_rate_limit(rv, ip, now)
        cv == review_content(form)
    IN
    IF ~rl.ok /\ cv.valid
    THEN Verdict(FALSE, "Rate limit: ", rl.msg, <<"captcha", "rate", "content">>,
                 "rate", pr, rl.wins)
    ELSE IF ~cv.valid
    THEN Verdict(FALSE, "", cv.msg, <<"captcha", "rate", "content">>, "content",
                 pr, rl.wins)
    ELSE Verdict(TRUE, "", AllPassed, <<"captcha", "rate", "content">>, "",
                 pr, rl.wins)

\* validate_review from the answer cap of verify_recaptcha on
validate_review(form, ip, now, pr, rv, cap) ==
    IF ~cap.valid
    THEN Verdict(FALSE, "CAPTCHA: ", cap.msg, <<"captcha">>, "captcha", pr, rv)
    ELSE
    LET rl == check_review_rate_limit(rv, ip, now) IN
    IF ~rl.ok
    THEN Verdict(FALSE, "Rate limit: ", rl.msg, <<"captcha", "rate">>, "rate",
                 pr, rl.wins)
    ELSE
    LET cv == review_content(form) IN
    IF ~cv.valid
    THEN Verdict(FALSE, "", cv.msg, <<"captcha", "rate", "content">>, "content",
                 pr, rl.wins)
    ELSE Verdict(TRUE, "", AllPassed, <<"captcha", "rate", "content">>, "",
                 pr, rl.wins)

(***************************************************************************)
(* State after ProtectionService.__init__                                  *)
(***************************************************************************)
InitService ==
    /\ clock = 0
    /\ nticks = 0
    /\ _price_reports = [ip \in IPs |-> <<>>]
    /\ _reviews = [ip \in IPs |-> <<>>]

\* the wall clock moves on between two calls
Tick(d) ==
    /\ nticks < MaxTicks
    /\ clock' = clock + d
    /\ nticks' = nticks + 1
    /\ UNCHANGED <<_price_reports, _reviews, recaptcha_secret, req, nsubmits,
                   last, verif, rl_log, gas_prices, pval, arrived, db>>

(***************************************************************************)
(* Spec: submissions evaluated by the two pipelines.  An evaluation is     *)
(* suspended only while verify_recaptcha awaits the verification service;  *)
(* everything after the answer runs without an await that suspends.        *)
(***************************************************************************)
Reqs == 1..NumReqs

NoForm == Form("", "", "", FALSE, 0, <<>>, <<>>, FALSE, 0)
IdleReq == [pc |-> "idle", form |-> NoForm, ip |-> ""]

NoVerdict == Verdict(FALSE, "", Msg("", 0, 0), <<>>, "", <<>>, <<>>)
NoLast ==
    [seq |-> 0, form |-> NoForm, ip |-> "", calls |-> 0,
     accepted |-> FALSE, reason |-> NoVerdict.reason, gates |-> <<>>,
     rejected_by |-> ""]

Validated(fuel_type, price) == PriceRow(fuel_type, price, 0, TRUE, "validated")

\* n validated current rows of today of one fuel type at one price
Rows(n, fuel_type, price) == [i \in 1..n |-> Validated(fuel_type, price)]

\* the table the pipelines of Spec run on: five samples of magna at 20.00
InitPrices == Rows(min_samples_for_validation, "magna", 2000)

NoPval ==
    [done |-> FALSE, fuel_type |-> "", reported_price |-> 0,
     res |-> PriceRaised("")]

\* no row written, no response sent yet
NoDb ==
    [reports |-> <<>>, prices |-> <<>>, reviews |-> <<>>, status |-> 0,
     station |-> ""]

NoVerif ==
    [done |-> FALSE, token |-> "", outcome |-> Outcome("timeout", 0, "none", "absent", FALSE, 0),
     calls |-> 0, res |-> Returned(FALSE, Msg("", 0, 0))]

\* the evaluation of slot r returns and an accepted price report is added to
\* the samples as a validated row
Complete_records_sample(r, form, ip, cap, calls) ==
    LET v == IF form.kind = "price"
             THEN validate_price_report(form, ip, clock, _price_reports, _reviews, cap)
             ELSE validate_review(form, ip, clock, _price_reports, _reviews, cap)
    IN  /\ _price_reports' = v.pr
        /\ _reviews' = v.rv
        /\ last' = [seq |-> last.seq + 1, form |-> form, ip |-> ip, calls |-> calls,
                    accepted |-> v.accepted, reason |-> v.reason,
                    gates |-> v.gates, rejected_by |-> v.rejected_by]
        /\ req' = [req EXCEPT ![r] = IdleReq]
        /\ gas_prices' = IF v.accepted /\ form.kind = "price"
                         THEN Append(gas_prices,
                                     Validated(Lower(form.fuel_type), form.price))
                         ELSE gas_prices

\* the evaluation of slot r returns: the rest of the pipeline runs on the
\* answer cap of verify_recaptcha, obtained with calls posts to the service
Complete(r, form, ip, cap, calls) ==
    LET v == IF form.kind = "price"
             THEN validate_price_report(form, ip, clock, _price_reports, _reviews, cap)
             ELSE validate_review(form, ip, clock, _price_reports, _reviews, cap)
    IN  /\ _price_reports' = v.pr
        /\ _reviews' = v.rv
        /\ last' = [seq |-> last.seq + 1, form |-> form, ip |-> ip, calls |-> calls,
                    accepted |-> v.accepted, reason |-> v.reason,
                    gates |-> v.gates, rejected_by |-> v.rejected_by]
        /\ req' = [req EXCEPT ![r] = IdleReq]
        /\ UNCHANGED gas_prices

\* a request whose event is recorded on arrival, before its attestation
\* call is answered
Arrive_record_first(r, form, ip) ==
    LET pre == verify_recaptcha_precheck(form.token, recaptcha_secret) IN
    /\ req[r].pc = "idle"
    /\ \A q \in 1..(r - 1) : req[q].pc # "idle"
    /\ nsubmits < MaxSubmits
    /\ nsubmits' = nsubmits + 1
    /\ IF pre.call
       THEN /\ req' = [req EXCEPT ![r] = [pc |-> "captcha", form |-> form, ip |-> ip]]
            /\ IF form.kind = "price"
               THEN /\ _price_reports' =
                         check_price_report_rate_limit(_price_reports, ip, clock).wins
                    /\ UNCHANGED _reviews
               ELSE /\ _reviews' = check_review_rate_limit(_reviews, ip, clock).wins
                    /\ UNCHANGED _price_reports
            /\ UNCHANGED <<last, gas_prices>>
       ELSE Complete(r, form, ip, pre.res, 0)
    /\ UNCHANGED <<clock, nticks, recaptcha_secret, verif, rl_log, pval>>

\* a request arrives and its pipeline runs up to its first suspension
Arrive(r, form, ip) ==
    LET pre == verify_recaptcha_precheck(form.token, recaptcha_secret) IN
    /\ req[r].pc = "idle"
    /\ \A q \in 1..(r - 1) : req[q].pc # "idle"
    /\ nsubmits < MaxSubmits
    /\ nsubmits' = nsubmits + 1
    /\ IF pre.call
       THEN /\ req' = [req EXCEPT ![r] = [pc |-> "captcha", form |-> form, ip |-> ip]]
            /\ UNCHANGED <<_price_reports, _reviews, last, gas_prices>>
       ELSE Complete(r, form, ip, pre.res, 0)
    /\ UNCHANGED <<clock, nticks, recaptcha_secret, verif, rl_log, pval>>

\* Arrive with no record of the order of arrivals and returns
Submit(r, form, ip) == Arrive(r, form, ip) /\ UNCHANGED <<arrived, db>>

\* Arrive that notes how many evaluations had returned before
SubmitTracked(r, form, ip) ==
    /\ Arrive(r, form, ip)
    /\ arrived' = [arrived EXCEPT ![r] = last.seq]
    /\ UNCHANGED db

\* an exception left verify_recaptcha with one timestamp already written
Abandon_recorded(r) ==
    /\ req' = [req EXCEPT ![r] = IdleReq]
    /\ IF req[r].form.kind = "price"
       THEN /\ _price_reports' =
                 [_price_reports EXCEPT ![req[r].ip] = Append(@, clock)]
            /\ UNCHANGED _reviews
       ELSE /\ _reviews' = [_reviews EXCEPT ![req[r].ip] = Append(@, clock)]
            /\ UNCHANGED _price_reports
    /\ UNCHANGED <<last, gas_prices>>

\* an exception leaves verify_recaptcha: it leaves validate_price_report or
\* validate_review at "await self.verify_recaptcha(...)", before the
\* rate-limit check, and no decision is returned
Abandon(r) ==
    /\ req' = [req EXCEPT ![r] = IdleReq]
    /\ UNCHANGED <<_price_reports, _reviews, last, gas_prices>>

\* the await of session.post ends (answer, failure or cancellation) and the
\* pipeline runs on without another suspension
Resume(r, o) ==
    /\ req[r].pc = "captcha"
    /\ LET cap == verify_recaptcha_response(o) IN
       IF cap.raised
       THEN Abandon(r)
       ELSE Complete(r, req[r].form, req[r].ip, cap, 1)
    /\ UNCHANGED <<clock, nticks, recaptcha_secret, nsubmits, verif, rl_log,
                   pval, arrived>>

\* Resume seen from the pipeline alone
CaptchaResponse(r, o) == Resume(r, o) /\ UNCHANGED db

Init ==
    /\ InitService
    /\ recaptcha_secret \in Secrets
    /\ req = [r \in Reqs |-> IdleReq]
    /\ nsubmits = 0
    /\ last = NoLast
    /\ verif = NoVerif
    /\ rl_log = <<>>
    /\ gas_prices = InitPrices
    /\ pval = NoPval
    /\ arrived = [r \in Reqs |-> 0]
    /\ db = NoDb

Next ==
    \/ \E d \in PipelineTickSteps : Tick(d)
    \/ \E r \in Reqs, form \in Forms, ip \in IPs : Submit(r, form, ip)
    \/ \E r \in Reqs, o \in PipelineOutcomes : CaptchaResponse(r, o)

Spec == Init /\ [][Next]_vars

(***************************************************************************)
(* SpecConc: submissions evaluated concurrently with the verification      *)
(* service configured; the task of a request may be cancelled while its    *)
(* attestation call is in flight                                           *)
(***************************************************************************)
ConcForms ==
    {PriceForm("tok-1", "magna", TRUE, 4000),
     PriceForm("tok-1", "gasohol", FALSE, 0),
     ReviewForm("tok-1", GoodName, GoodComment, TRUE, 5),
     ReviewForm("tok-1", BlankName, ShortComment, TRUE, 6),
     ReviewForm(PyNone, GoodName, GoodComment, TRUE, 5)}

\* the concurrent submissions all come from one address
ConcIPs == {"1.2.3.4"}

\* asyncio cancels the task of slot r (the client disconnected, the server
\* shuts down): CancelledError is raised at the pending await
Cancel(r) ==
    /\ req[r].pc = "captcha"
    /\ verify_recaptcha_response(Cancelled).raised
    /\ Abandon(r)
    /\ UNCHANGED <<clock, nticks, recaptcha_secret, nsubmits, verif, rl_log,
                   pval, arrived, db>>

InitConc ==
    /\ InitService
    /\ recaptcha_secret = "secret-key"
    /\ req = [r \in Reqs |-> IdleReq]
    /\ nsubmits = 0
    /\ last = NoLast
    /\ verif = NoVerif
    /\ rl_log = <<>>
    /\ gas_prices = InitPrices
    /\ pval = NoPval
    /\ arrived = [r \in Reqs |-> 0]
    /\ db = NoDb

NextConc ==
    \/ \E d \in PipelineTickSteps : Tick(d)
    \/ \E r \in Reqs, form \in ConcForms, ip \in ConcIPs :
          SubmitTracked(r, form, ip)
    \/ \E r \in Reqs, o \in PipelineOutcomes : CaptchaResponse(r, o)
    \/ \E r \in Reqs : Cancel(r)

SpecConc == InitConc /\ [][NextConc]_vars

(***************************************************************************)
(* SpecLive: the pipelines with the verification service configured and    *)
(* the attestation call bounded.  aiohttp.ClientTimeout(total=10) ends the *)
(* await of session.post after ten seconds at the latest, with an answer   *)
(* or with TimeoutError, so the step that ends a pending call cannot be    *)
(* postponed for ever: weak fairness on CaptchaResponse of every slot.     *)
(***************************************************************************)
\* the 10 s total timeout fires
TimedOut == Outcome("timeout", 0, "none", "absent", FALSE, 0)

LiveForms ==
    {PriceForm("tok-1", "Magna", TRUE, 1600),
     PriceForm("tok-1", "magna", TRUE, 4000),
     ReviewForm("tok-1", GoodName, GoodComment, TRUE, 5)}

NextLive ==
    \/ \E r \in Reqs, form \in LiveForms, ip \in ConcIPs : Submit(r, form, ip)
    \/ \E r \in Reqs, o \in PipelineOutcomes : CaptchaResponse(r, o)

SpecLive ==
    /\ InitConc
    /\ [][NextLive]_vars
    /\ \A r \in Reqs : WF_vars(\E o \in PipelineOutcomes : CaptchaResponse(r, o))

(***************************************************************************)
(* SpecHandler: the request handlers POST /report and POST /reviews around *)
(* the pipelines.  After the pipeline returned, the handler runs on to its *)
(* response in the same step: entering the database session raises before  *)
(* any await of db_service yields.                                         *)
(***************************************************************************)
\* what the stations table holds for the gas_station_id of a request: no
\* active row, a station that does not sell the fuel, a station that does
Stations == {"missing", "no_fuel", "ok"}

\* the fuel types GasStation.has_fuel_type knows
KnownFuels == {"magna", "premium", "diesel"}

\* the result of a call of db_service: the rows as it leaves them
DbResult(raised, found, rows) == [raised |-> raised, found |-> found, rows |-> rows]

get_gas_station_by_id(station, rows) ==
    IF get_async_session_enter # "entered"
    THEN DbResult(TRUE, FALSE, rows)
    ELSE DbResult(FALSE, station # "missing", rows)

\* the report and the price derived from it are committed together
create_price_report(form, ip, rows) ==
    IF get_async_session_enter # "entered"
    THEN DbResult(TRUE, FALSE, rows)
    ELSE DbResult(FALSE, TRUE,
             [rows EXCEPT !.reports = Append(@, [form |-> form, ip |-> ip]),
                          !.prices = Append(@, Validated(Lower(form.fuel_type),
                                                         form.price))])

db_create_review(form, ip, rows) ==
    IF get_async_session_enter # "entered"
    THEN DbResult(TRUE, FALSE, rows)
    ELSE DbResult(FALSE, TRUE,
             [rows EXCEPT !.reviews = Append(@, [form |-> form, ip |-> ip])])

\* the response of a handler: HTTP status, and the rows as they are then
Response(status, station, rows) ==
    [rows EXCEPT !.status = status, !.station = station]

\* report_price that creates the report before it looks at the decision of
\* the pipeline
report_price_create_first(l, station, rows) ==
    LET created == [rows EXCEPT
                      !.reports = Append(@, [form |-> l.form, ip |-> l.ip]),
                      !.prices = Append(@, Validated(Lower(l.form.fuel_type),
                                                     l.form.price))]
    IN  IF l.rejected_by = "raised"
        THEN Response(500, station, created)
        ELSE IF ~l.accepted
        THEN Response(400, station, created)
        ELSE Response(200, station, created)

\* report_price from the return of validate_price_report on; l is the
\* evaluation that returned.  An exception other than HTTPException is
\* answered with 500.
report_price(l, station, rows) ==
    IF l.rejected_by = "raised"
    THEN Response(500, station, rows)
    ELSE IF ~l.accepted
    THEN Response(400, station, rows)
    ELSE
    LET st == get_gas_station_by_id(station, rows) IN
    IF st.raised
    THEN Response(500, station, rows)
    ELSE IF ~st.found
    THEN Response(404, station, rows)
    ELSE IF station = "no_fuel" \/ Lower(l.form.fuel_type) \notin KnownFuels
    THEN Response(400, station, rows)
    ELSE
    LET cr == create_price_report(l.form, l.ip, rows) IN
    IF cr.raised
    THEN Response(500, station, rows)
    ELSE Response(200, station, cr.rows)

\* create_review from the return of validate_review on
create_review(l, station, rows) ==
    IF ~l.accepted
    THEN Response(400, station, rows)
    ELSE
    LET st == get_gas_station_by_id(station, rows) IN
    IF st.raised
    THEN Response(500, station, rows)
    ELSE IF ~st.found
    THEN Response(404, station, rows)
    ELSE
    LET cr == db_create_review(l.form, l.ip, rows) IN
    IF cr.raised
    THEN Response(500, station, rows)
    ELSE Response(200, station, cr.rows)

\* the handler of the kind of the evaluation l answers
Respond(l, station, rows) ==
    IF l.form.kind = "price"
    THEN report_price(l, station, rows)
    ELSE create_review(l, station, rows)

\* requests that pass the Form(...) constraints of the two routes
HandlerForms ==
    {PriceForm("tok-1", "Magna", TRUE, 1600),
     PriceForm("tok-1", "magna", TRUE, 4000),
     PriceForm("", "magna", TRUE, 1600),
     ReviewForm("tok-1", GoodName, GoodComment, TRUE, 5),
     ReviewForm("tok-1", BlankName, ShortComment, TRUE, 5)}

\* a request arrives at its handler; when the pipeline returns without a
\* call of the verification service the handler answers at once
HandlerArrive(r, form, ip, station) ==
    /\ Arrive(r, form, ip)
    /\ UNCHANGED arrived
    /\ db' = IF last'.seq # last.seq THEN Respond(last', station, db) ELSE db

\* the attestation call of slot r ends and the handler runs to its response
HandlerResume(r, o, station) ==
    /\ Resume(r, o)
    /\ db' = IF last'.seq # last.seq THEN Respond(last', station, db) ELSE db

NextHandler ==
    \/ \E d \in PipelineTickSteps : Tick(d)
    \/ \E r \in Reqs, form \in HandlerForms, ip \in ConcIPs, station \in Stations :
          HandlerArrive(r, form, ip, station)
    \/ \E r \in Reqs, o \in PipelineOutcomes, station \in Stations :
          HandlerResume(r, o, station)

SpecHandler == InitConc /\ [][NextHandler]_vars

(***************************************************************************)
(* SpecVerify: verify_recaptcha on every token, secret and outcome         *)
(***************************************************************************)
VerifyCall ==
    LET v == verify_recaptcha(verif.token, recaptcha_secret, verif.outcome) IN
    /\ ~verif.done
    /\ verif' = [verif EXCEPT !.done = TRUE, !.calls = v.calls, !.res = v.res]
    /\ UNCHANGED <<clock, nticks, _price_reports, _reviews, recaptcha_secret,
                   req, nsubmits, last, rl_log, gas_prices, pval, arrived, db>>

InitVerify ==
    /\ InitService
    /\ recaptcha_secret \in Secrets
    /\ req = [r \in Reqs |-> IdleReq]
    /\ nsubmits = 0
    /\ last = NoLast
    /\ rl_log = <<>>
    /\ gas_prices = InitPrices
    /\ pval = NoPval
    /\ arrived = [r \in Reqs |-> 0]
    /\ db = NoDb
    /\ \E t \in Tokens, o \in Outcomes :
          verif = [NoVerif EXCEPT !.token = t, !.outcome = o]

NextVerify == VerifyCall

SpecVerify == InitVerify /\ [][NextVerify]_vars

(***************************************************************************)
(* SpecPrice: validate_price_dynamically on every fuel type, price and     *)
(* content of the gas_prices table                                         *)
(***************************************************************************)
\* largest number of rows of one fuel type in a table
MaxSamples == 6

FuelTypes == {"magna", "Magna", "premium", "gasohol"}
ReportedPrices == {0, 850, 1140, 1150, 1200, 1500, 1600, 3500, 3501, 4000}

\* the tables of the model: 0..MaxSamples samples of magna at 10.00 or
\* 20.00, and five rows of which the query drops one (too old, superseded,
\* not validated, another fuel)
PriceTables ==
    {Rows(n, "magna", p) : n \in 0..MaxSamples, p \in {1000, 2000}}
    \cup {Rows(min_samples_for_validation - 1, "magna", 1000) \o <<row>> :
            row \in {PriceRow("magna", 1000, price_data_freshness_days + 1, TRUE, "validated"),
                     PriceRow("magna", 1000, 0, FALSE, "validated"),
                     PriceRow("magna", 1000, 0, TRUE, "pending"),
                     PriceRow("premium", 1000, 0, TRUE, "validated")}}

ValidatePrice ==
    /\ ~pval.done
    /\ pval' = [pval EXCEPT !.done = TRUE,
                  !.res = validate_price_dynamically(pval.fuel_type,
                                                     pval.reported_price)]
    /\ UNCHANGED <<clock, nticks, _price_reports, _reviews, recaptcha_secret,
                   req, nsubmits, last, verif, rl_log, gas_prices, arrived, db>>

InitPrice ==
    /\ InitService
    /\ recaptcha_secret = ""
    /\ req = [r \in Reqs |-> IdleReq]
    /\ nsubmits = 0
    /\ last = NoLast
    /\ verif = NoVerif
    /\ rl_log = <<>>
    /\ gas_prices \in PriceTables
    /\ \E f \in FuelTypes, p \in ReportedPrices :
          pval = [NoPval EXCEPT !.fuel_type = f, !.reported_price = p]
    /\ arrived = [r \in Reqs |-> 0]
    /\ db = NoDb

NextPrice == ValidatePrice

SpecPrice == InitPrice /\ [][NextPrice]_vars

(***************************************************************************)
(* SpecRL: the two rate-limit checks called directly                       *)
(***************************************************************************)
LogEntry(cat, ip, before, res) ==
    [cat |-> cat, ip |-> ip, now |-> clock, ok |-> res.ok, msg |-> res.msg,
     count |-> res.count, before |-> before, after |-> res.wins[ip]]

RLCheckPrice(ip) ==
    LET res == check_price_report_rate_limit(_price_reports, ip, clock) IN
    /\ Len(rl_log) < MaxChecks
    /\ _price_reports' = res.wins
    /\ rl_log' = Append(rl_log, LogEntry("price", ip, _price_reports[ip], res))
    /\ UNCHANGED <<clock, nticks, _reviews, recaptcha_secret, req, nsubmits,
                   last, verif, gas_prices, pval, arrived, db>>

RLCheckReview(ip) ==
    LET res == check_review_rate_limit(_reviews, ip, clock) IN
    /\ Len(rl_log) < MaxChecks
    /\ _reviews' = res.wins
    /\ rl_log' = Append(rl_log, LogEntry("review", ip, _reviews[ip], res))
    /\ UNCHANGED <<clock, nticks, _price_reports, recaptcha_secret, req,
                   nsubmits, last, verif, gas_prices, pval, arrived, db>>

InitRL ==
    /\ InitService
    /\ recaptcha_secret = ""
    /\ req = [r \in Reqs |-> IdleReq]
    /\ nsubmits = 0
    /\ last = NoLast
    /\ verif = NoVerif
    /\ rl_log = <<>>
    /\ gas_prices = InitPrices
    /\ pval = NoPval
    /\ arrived = [r \in Reqs |-> 0]
    /\ db = NoDb

NextRL ==
    \/ \E d \in TickSteps : Tick(d)
    \/ \E ip \in IPs : RLCheckPrice(ip)
    \/ \E ip \in IPs : RLCheckReview(ip)

SpecRL == InitRL /\ [][NextRL]_vars

(***************************************************************************)
(* Properties of the rate limiter (SpecRL)                                 *)
(***************************************************************************)
Limit(cat) == IF cat = "price" THEN price_reports_per_hour ELSE reviews_per_day
Window(cat) == IF cat = "price" THEN PriceWindowSecs ELSE ReviewWindowSecs

SameKey(i, j) == rl_log[i].ip = rl_log[j].ip /\ rl_log[i].cat = rl_log[j].cat

\* j is the k-th check of its (identity, category) counted from check i
RankFrom(i, j) == Cardinality({m \in i..j : SameKey(i, m)})

\* the events of w that are not older than the window at time now
Live(w, cat, now) == SelectSeq(w, LAMBDA t : t >= now - Window(cat))

\* C1: counted from a check that found the (pruned) window empty, the first
\* L checks of an identity and category made within W are all allowed and the
\* (L+1)-th made within the same W is rejected.
C1_FirstLAllowedThenRejected ==
    \A i \in 1..Len(rl_log) : \A j \in i..Len(rl_log) :
        (/\ rl_log[i].count = 0
         /\ SameKey(i, j)
         /\ rl_log[j].now - rl_log[i].now <= Window(rl_log[i].cat))
        => /\ RankFrom(i, j) <= Limit(rl_log[i].cat) => rl_log[j].ok
           /\ RankFrom(i, j) = Limit(rl_log[i].cat) + 1 => ~rl_log[j].ok

C1_Witness ==
    \E i \in 1..Len(rl_log) : \E j \in i..Len(rl_log) :
        /\ rl_log[i].count = 0 /\ SameKey(i, j)
        /\ rl_log[j].now > rl_log[i].now
        /\ rl_log[j].now - rl_log[i].now <= Window(rl_log[i].cat)
        /\ RankFrom(i, j) = Limit(rl_log[i].cat) + 1
        /\ ~rl_log[j].ok

\* C2: a rejected check records nothing: the window it leaves is exactly the
\* events of the window it found that are still inside W, their number is
\* the count it reports, and the time of the check is not among them unless
\* it was recorded before.
C2_RejectedRecordsNothing ==
    \A i \in 1..Len(rl_log) :
        ~rl_log[i].ok =>
            /\ rl_log[i].after = Live(rl_log[i].before, rl_log[i].cat, rl_log[i].now)
            /\ Len(rl_log[i].after) = rl_log[i].count
            /\ Len(rl_log[i].after) <= Len(rl_log[i].before)

C2_Witness ==
    \E i \in 1..Len(rl_log) : \E j \in (i+1)..Len(rl_log) :
        /\ SameKey(i, j) /\ ~rl_log[i].ok /\ ~rl_log[j].ok
        /\ rl_log[j].now > rl_log[i].now
        /\ rl_log[j].after = rl_log[i].after

\* C3 as stated: with a full window, a check made once W has elapsed from
\* the oldest recorded event (elapsed >= W) is allowed.
C3_AsStated ==
    \A i \in 1..Len(rl_log) :
        (/\ Len(rl_log[i].before) = Limit(rl_log[i].cat)
         /\ rl_log[i].now - rl_log[i].before[1] >= Window(rl_log[i].cat))
        => rl_log[i].ok

\* C3 amended: with a full window, a check made when strictly more than W
\* has elapsed from the oldest recorded event is allowed, and the window it
\* leaves is the events still inside W followed by the new event.
C3_ReclaimedAfterWindow ==
    \A i \in 1..Len(rl_log) :
        (/\ Len(rl_log[i].before) = Limit(rl_log[i].cat)
         /\ rl_log[i].now - rl_log[i].before[1] > Window(rl_log[i].cat))
        => /\ rl_log[i].ok
           /\ rl_log[i].after =
                Append(Live(rl_log[i].before, rl_log[i].cat, rl_log[i].now),
                       rl_log[i].now)

C3_Witness ==
    \E i \in 1..Len(rl_log) :
        /\ Len(rl_log[i].before) = Limit(rl_log[i].cat)
        /\ rl_log[i].now - rl_log[i].before[1] > Window(rl_log[i].cat)
        /\ rl_log[i].ok
        /\ Len(rl_log[i].after) >= 2
        /\ Len(rl_log[i].after) < Len(rl_log[i].before) + 1

(***************************************************************************)
(* Properties of the pipelines (Spec)                                      *)
(***************************************************************************)
Evaluated == last.seq > 0

\* an evaluation returns in this step
Returns == last'.seq # last.seq

\* the window table of a category
Table(kind) == IF kind = "price" THEN _price_reports ELSE _reviews
TableNext(kind) == IF kind = "price" THEN _price_reports' ELSE _reviews'
Cat(kind) == IF kind = "price" THEN "price" ELSE "review"

AllGates == <<"captcha", "rate", "content">>

\* C4: the gates run in the order attestation, rate limit, content check and
\* none runs after the first rejection: a rejection by attestation ran
\* attestation alone, a rejection by the rate limit ran no content check, and
\* the reason returned is that of the rejecting gate.
C4_FixedOrderFailFast ==
    Evaluated =>
        /\ \E n \in 1..3 : last.gates = SubSeq(AllGates, 1, n)
        /\ last.accepted <=> last.rejected_by = ""
        /\ last.accepted => last.gates = AllGates
        /\ last.rejected_by = "captcha" =>
              last.gates = <<"captcha">> /\ last.reason.prefix = "CAPTCHA: "
        /\ last.rejected_by = "rate" =>
              last.gates = <<"captcha", "rate">> /\ last.reason.prefix = "Rate limit: "
        /\ last.rejected_by = "content" => last.gates = AllGates

C4_Witness ==
    /\ Evaluated
    /\ last.rejected_by = "rate"
    /\ last.gates = <<"captcha", "rate">>

\* C5: a step in which a submission is rejected by attestation, or in which
\* its attestation call is sent, leaves both window tables as they were.
C5_AttestationRejectKeepsWindows ==
    [][ (\/ Returns /\ last'.rejected_by = "captcha"
         \/ \E r \in Reqs : req[r].pc = "idle" /\ req'[r].pc = "captcha")
        => (_price_reports' = _price_reports /\ _reviews' = _reviews) ]_vars

C5_Witness ==
    /\ Evaluated
    /\ last.rejected_by = "captcha"
    /\ last.calls = 1
    /\ _price_reports[last.ip] # <<>>
    /\ \E ip \in IPs : _reviews[ip] # <<>>

\* C6 as stated: after a submission rejected by the content check the
\* identity's window of that category holds one more event than before the
\* submission.
C6_AsStated ==
    [][ (Returns /\ last'.rejected_by = "content")
        => Len(TableNext(last'.form.kind)[last'.ip]) =
              Len(Table(last'.form.kind)[last'.ip]) + 1 ]_vars

\* C6 amended: after a submission rejected by the content check the
\* identity's window of that category holds the events of before the
\* submission that are still inside W, followed by the time of the submission.
C6_ContentRejectConsumesSlot ==
    [][ (Returns /\ last'.rejected_by = "content")
        => TableNext(last'.form.kind)[last'.ip] =
              Append(Live(Table(last'.form.kind)[last'.ip],
                          Cat(last'.form.kind), clock), clock) ]_vars

C6_Witness ==
    /\ Evaluated
    /\ last.rejected_by = "content"
    /\ last.form.kind = "price"
    /\ Len(_price_reports[last.ip]) = 1
    /\ clock > PriceWindowSecs
    /\ nsubmits >= 2

\* C7: a submission with an empty or missing token is rejected by attestation
\* with no call to the verification service, with the secret configured or not.
C7_EmptyTokenRejected ==
    /\ (Evaluated /\ Falsy(last.form.token)) =>
          /\ ~last.accepted
          /\ last.rejected_by = "captcha"
          /\ last.reason.text = "Token CAPTCHA requerido"
          /\ last.calls = 0
    /\ \A r \in Reqs : req[r].pc = "captcha" => ~Falsy(req[r].form.token)

C7_Witness ==
    /\ Evaluated
    /\ Falsy(last.form.token)
    /\ recaptcha_secret = ""
    /\ ~last.accepted
    /\ Table(last.form.kind)[last.ip] # <<>>

\* C8: with the secret unset no call to the verification service is ever in
\* flight, and every submission with a non-empty token passes attestation
\* without a call and runs the rate-limit gate.
C8_BypassWhenSecretUnset ==
    recaptcha_secret = "" =>
        /\ \A r \in Reqs : req[r].pc # "captcha"
        /\ (Evaluated /\ ~Falsy(last.form.token)) =>
              /\ last.calls = 0
              /\ last.rejected_by # "captcha"
              /\ Len(last.gates) >= 2
              /\ last.gates[2] = "rate"

C8_Witness ==
    /\ recaptcha_secret = ""
    /\ Evaluated
    /\ ~Falsy(last.form.token)
    /\ last.rejected_by = "rate"

(***************************************************************************)
(* Properties of verify_recaptcha (SpecVerify)                             *)
(***************************************************************************)
Posted == verif.done /\ recaptcha_secret # "" /\ ~Falsy(verif.token)

\* a transport error, a timeout, a non-success status or a body that is not
\* a JSON object
FailedExchange(o) ==
    \/ o.kind \in {"client_error", "timeout"}
    \/ o.status # HttpOK
    \/ o.body \in {"not_json", "not_object"}

C10_ScoreThreshold ==
    (/\ Posted
     /\ verif.outcome.kind = "response"
     /\ verif.outcome.status = HttpOK
     /\ verif.outcome.body \in {"object", "not_object"})
    => (verif.res.valid <=>
          /\ verif.outcome.body = "object"
          /\ verif.outcome.success = "true"
          /\ (~verif.outcome.has_score \/ verif.outcome.score >= ScoreThreshold))

C10_Witness ==
    /\ Posted
    /\ verif.outcome.status = HttpOK
    /\ verif.outcome.success = "true"
    /\ verif.outcome.has_score
    /\ verif.outcome.score = ScoreThreshold - 1
    /\ ~verif.res.valid
    /\ verif.res.msg.text = "Score CAPTCHA muy bajo"

(***************************************************************************)
(* Price validator (SpecPrice)                                             *)
(***************************************************************************)
\* the call of validate_price_dynamically has returned or raised
PriceValidated == pval.done

\* the fresh validated samples of the fuel type of the call
Samples == query_prices(gas_prices, Lower(pval.fuel_type))

\* mean * (1 - tol) <= price <= mean * (1 + tol), both ends included
InBand(samples, price) ==
    /\ Sum(samples) * (100 - price_tolerance_percent) <= price * 100 * Len(samples)
    /\ price * 100 * Len(samples) <= Sum(samples) * (100 + price_tolerance_percent)

HasRange(fuel_type) == Lower(fuel_type) \in DOMAIN fallback_price_ranges

InRange(fuel_type, price) ==
    /\ fallback_price_ranges[Lower(fuel_type)].min <= price
    /\ price <= fallback_price_ranges[Lower(fuel_type)].max

\* C11: when the table holds at least min_samples_for_validation fresh
\* validated samples of the fuel type, the validator accepts the price iff
\* it lies in the band [mean * 0.85, mean * 1.15], ends included.
C11_AsStated ==
    (PriceValidated /\ Len(Samples) >= min_samples_for_validation)
    => /\ ~pval.res.raised
       /\ pval.res.valid <=> InBand(Samples, pval.reported_price)

\* five samples at 10.00 and a report of 11.40 for magna: inside the band
\* [8.50, 11.50], rejected on the fallback range [15.00, 35.00]
C11_Witness ==
    /\ PriceValidated
    /\ Samples = <<1000, 1000, 1000, 1000, 1000>>
    /\ pval.reported_price = 1140
    /\ InBand(Samples, pval.reported_price)
    /\ ~pval.res.valid
    /\ pval.res.msg = Msg("Precio fuera del rango fallback (${a} - ${b})", 1500, 3500)

\* C12: with fewer samples than min_samples_for_validation and a fallback
\* range configured for the fuel type, the validator accepts iff
\* min <= price <= max of that range, whatever the samples are.
C12_FallbackRangeDecides ==
    (/\ PriceValidated
     /\ Len(Samples) < min_samples_for_validation
     /\ HasRange(pval.fuel_type))
    => /\ ~pval.res.raised
       /\ pval.res.valid <=> InRange(pval.fuel_type, pval.reported_price)

C12_Witness ==
    /\ PriceValidated
    /\ Len(Samples) = 3
    /\ Lower(pval.fuel_type) = "magna"
    /\ pval.reported_price = 4000
    /\ ~pval.res.valid

\* C13: a fuel type without a configured fallback range is valid at every
\* price.
C13_NoRangeAcceptsAll ==
    (PriceValidated /\ ~HasRange(pval.fuel_type))
    => /\ ~pval.res.raised
       /\ pval.res.valid
       /\ pval.res.msg.text = "No hay limites definidos para este combustible"

C13_Witness ==
    /\ PriceValidated
    /\ pval.fuel_type = "gasohol"
    /\ pval.reported_price = 0
    /\ Len(Samples) = 0
    /\ pval.res.valid

\* C15: every result of the price validator, accepted or rejected, carries
\* diagnostics that report the bounds used, the basis (market or fallback)
\* and the number of samples.
C15_AsStated ==
    PriceValidated
    => /\ ~pval.res.raised
       /\ "valid_range" \in DOMAIN pval.res.info
       /\ "samples_count" \in DOMAIN pval.res.info
       /\ \/ "fallback_mode" \in DOMAIN pval.res.info
          \/ "market_average" \in DOMAIN pval.res.info

\* a fuel type without a range: the diagnostics are the empty dict
C15_Witness ==
    /\ PriceValidated
    /\ ~HasRange(pval.fuel_type)
    /\ pval.res.valid
    /\ DOMAIN pval.res.info = {}

(***************************************************************************)
(* Price validation inside the pipeline (Spec)                             *)
(***************************************************************************)
\* the evaluation that returned last is a price report whose price was
\* handed to validate_price_dynamically
PriceChecked ==
    /\ Evaluated
    /\ last.form.kind = "price"
    /\ last.gates = AllGates
    /\ last.form.price_ok

\* the read of gas_prices fails: the try body raises
ReadFailed(fuel_type, price) == validate_price_try_body(fuel_type, price).raised

\* C17: when the read of the price samples fails, validate_price_report
\* still returns a decision, and the decision is the fallback range's:
\* accepted iff the fuel type has no range or the price lies inside it, and
\* a rejection carries the fallback message.
C17_ReadFailureDegrades ==
    (PriceChecked /\ ReadFailed(last.form.fuel_type, last.form.price))
    => /\ last.rejected_by # "raised"
       /\ last.accepted <=>
            \/ ~HasRange(last.form.fuel_type)
            \/ InRange(last.form.fuel_type, last.form.price)
       /\ ~last.accepted =>
            /\ last.rejected_by = "content"
            /\ last.reason.text = "Precio fuera del rango fallback (${a} - ${b})"

\* 16.00 for Magna is accepted on the fallback range [15.00, 35.00] although
\* the table holds five samples at 20.00
C17_Witness ==
    /\ PriceChecked
    /\ ReadFailed(last.form.fuel_type, last.form.price)
    /\ Len(query_prices(gas_prices, Lower(last.form.fuel_type))) >= min_samples_for_validation
    /\ last.form.price = 1600
    /\ last.accepted

(***************************************************************************)
(* Reasons and messages                                                    *)
(***************************************************************************)
\* the message part of the reason returned last
LastMessage == Msg(last.reason.text, last.reason.a, last.reason.b)

\* the messages verify_recaptcha rejects with
CaptchaMessages ==
    {"Token CAPTCHA requerido", "Error verificando CAPTCHA", "CAPTCHA invalido",
     "Score CAPTCHA muy bajo"}

RateText(kind) ==
    IF kind = "price"
    THEN "Limite excedido: {a}/{b} reportes por hora"
    ELSE "Limite excedido: {a}/{b} resenas por dia"

\* C14 as stated: the reason of a rejection is the message of the rejecting
\* gate and nothing else.
C14_AsStated ==
    (Evaluated /\ ~last.accepted) => last.reason.prefix = ""

\* C14 amended: the reason of a rejection is the message of the rejecting
\* gate behind the label of that gate: "CAPTCHA: " for attestation,
\* "Rate limit: " for the rate limit, "Precio: " for the price validator;
\* an unparsable price ("Precio invalido") and the content checks of a review
\* are returned without a label.
C14_LabelledGateMessage ==
    (Evaluated /\ ~last.accepted) =>
        /\ last.rejected_by = "captcha" =>
              /\ last.reason.prefix = "CAPTCHA: "
              /\ last.reason.text \in CaptchaMessages
              /\ last.calls = 0 => last.reason.text = "Token CAPTCHA requerido"
        /\ last.rejected_by = "rate" =>
              /\ last.reason.prefix = "Rate limit: "
              /\ LastMessage = Msg(RateText(last.form.kind),
                                   Len(Table(last.form.kind)[last.ip]),
                                   Limit(Cat(last.form.kind)))
        /\ (last.rejected_by = "content" /\ last.form.kind = "price") =>
              IF last.form.price_ok
              THEN /\ last.reason.prefix = "Precio: "
                   /\ LastMessage =
                        validate_price_dynamically(last.form.fuel_type,
                                                   last.form.price).msg
              ELSE /\ last.reason.prefix = ""
                   /\ LastMessage = Msg("Precio invalido", 0, 0)
        /\ (last.rejected_by = "content" /\ last.form.kind = "review") =>
              /\ last.reason.prefix = ""
              /\ LastMessage = review_content(last.form).msg

C14_Witness ==
    /\ Evaluated
    /\ ~last.accepted
    /\ last.rejected_by = "content"
    /\ last.reason.prefix = "Precio: "
    /\ LastMessage = Msg("Precio fuera del rango fallback (${a} - ${b})", 1500, 3500)

\* C16: the message of a rate-limit rejection reports the number of events
\* left in the window after pruning and the limit; a rejection happens at
\* count = limit (3/3 for price reports).
C16_MessageReportsCountAndLimit ==
    \A i \in 1..Len(rl_log) :
        ~rl_log[i].ok =>
            /\ rl_log[i].msg.text = RateText(rl_log[i].cat)
            /\ rl_log[i].msg.a = Len(Live(rl_log[i].before, rl_log[i].cat, rl_log[i].now))
            /\ rl_log[i].msg.a = Len(rl_log[i].after)
            /\ rl_log[i].msg.b = Limit(rl_log[i].cat)
            /\ rl_log[i].msg.a = rl_log[i].msg.b

\* three price reports of one identity admitted within ten minutes, the
\* fourth of the same hour rejected with 3/3
C16_Witness ==
    /\ Len(rl_log) = 4
    /\ \A i \in 1..4 : rl_log[i].cat = "price" /\ rl_log[i].ip = rl_log[1].ip
    /\ \A i \in 1..3 : rl_log[i].ok /\ rl_log[i].now - rl_log[1].now <= 600
    /\ rl_log[4].now - rl_log[1].now <= PriceWindowSecs
    /\ ~rl_log[4].ok
    /\ rl_log[4].msg = Msg("Limite excedido: {a}/{b} reportes por hora", 3, 3)

(***************************************************************************)
(* Concurrent submissions and cancellation (SpecConc)                      *)
(***************************************************************************)
Pending(r) == req[r].pc = "captcha"

\* the evaluation of slot r returns in this step
ReturnsFrom(r) == Pending(r) /\ req'[r].pc = "idle" /\ Returns

\* slot r is abandoned in this step: its request ends without a decision
Abandoned(r) == Pending(r) /\ req'[r].pc = "idle" /\ ~Returns

WindowsChange == _price_reports' # _price_reports \/ _reviews' # _reviews

Span(w) == IF w = <<>> THEN 0 ELSE w[Len(w)] - w[1]

\* C18 as stated: the count a submission is tested against may be one read
\* before a concurrent submission of the same identity recorded its event.
\* Of two submissions of one identity and category in flight together, the
\* first admitted by the rate limit, the second is then not rejected by it.
C18_AsStated ==
    [][ \A q \in Reqs :
          (/\ ReturnsFrom(q)
           /\ last'.rejected_by # "captcha"
           /\ last.seq > arrived[q]
           /\ last.ip = req[q].ip
           /\ last.form.kind = req[q].form.kind
           /\ last.rejected_by \notin {"captcha", "rate", "raised"}
           /\ Len(Table(req[q].form.kind)[req[q].ip]) =
                 Limit(Cat(req[q].form.kind)))
          => last'.rejected_by # "rate" ]_vars

\* C18 amended: the rate-limit check tests and records without a
\* suspension, so submissions evaluated concurrently are counted one after
\* the other: no window ever holds more than L events, and the events of a
\* window lie within W of each other.
C18_NoOverAdmission ==
    \A ip \in IPs :
        /\ Len(_price_reports[ip]) <= price_reports_per_hour
        /\ Len(_reviews[ip]) <= reviews_per_day
        /\ Span(_price_reports[ip]) <= PriceWindowSecs
        /\ Span(_reviews[ip]) <= ReviewWindowSecs

\* two submissions of one identity and category were in flight together,
\* the first to return took the last slot of the window and the second is
\* still waiting for its attestation
C18_Witness ==
    \E q \in Reqs :
        /\ Pending(q)
        /\ last.seq > arrived[q]
        /\ last.ip = req[q].ip
        /\ last.form.kind = req[q].form.kind
        /\ last.calls = 1
        /\ last.accepted
        /\ Len(Table(req[q].form.kind)[req[q].ip]) = Limit(Cat(req[q].form.kind))

\* C19: a step changes a window only when an evaluation returns in it whose
\* attestation was valid, and then only the window of that evaluation's
\* identity and category; a submission that arrives, stays pending or is
\* abandoned changes none.
C19_NoWindowChangeWhilePending ==
    [][ WindowsChange =>
          /\ Returns
          /\ last'.rejected_by # "captcha"
          /\ Len(last'.gates) >= 2
          /\ \A ip \in IPs :
                /\ (ip # last'.ip \/ last'.form.kind # "price")
                      => _price_reports'[ip] = _price_reports[ip]
                /\ (ip # last'.ip \/ last'.form.kind # "review")
                      => _reviews'[ip] = _reviews[ip]
          /\ \A r \in Reqs : (Pending(r) /\ req'[r].pc = "captcha")
                                => req'[r] = req[r] ]_vars

\* a submission is pending on its attestation while an evaluation that
\* returned during its flight has recorded an event for the same identity
C19_Witness ==
    \E r \in Reqs :
        /\ Pending(r)
        /\ last.seq > arrived[r]
        /\ last.ip = req[r].ip
        /\ last.form.kind = req[r].form.kind
        /\ last.calls = 1
        /\ last.rejected_by \notin {"captcha", "rate"}
        /\ Table(req[r].form.kind)[req[r].ip] # <<>>

\* C20: a submission abandoned while its attestation call is in flight
\* leaves every window as it was, and every step leaves each window either
\* as it was, pruned, or pruned with the one timestamp of the step appended;
\* at most one window changes in a step.
C20_NoPartialUpdate ==
    [][ /\ (\E r \in Reqs : Abandoned(r)) => ~WindowsChange
        /\ \A ip \in IPs, kind \in {"price", "review"} :
              TableNext(kind)[ip] \in
                 {Table(kind)[ip],
                  Live(Table(kind)[ip], Cat(kind), clock),
                  Append(Live(Table(kind)[ip], Cat(kind), clock), clock)}
        /\ Cardinality({<<ip, kind>> \in IPs \X {"price", "review"} :
                          TableNext(kind)[ip] # Table(kind)[ip]}) <= 1 ]_vars

\* a submission was abandoned (it has no decision and is not pending) after
\* events had been recorded for its identity
C20_Witness ==
    /\ nsubmits > last.seq + Cardinality({r \in Reqs : Pending(r)})
    /\ \E ip \in IPs : _reviews[ip] # <<>> /\ _price_reports[ip] # <<>>

(***************************************************************************)
(* Termination (SpecLive)                                                  *)
(***************************************************************************)
\* every submission received is waiting for its attestation or has returned
\* its decision
NoneLost == nsubmits = last.seq + Cardinality({r \in Reqs : Pending(r)})

\* C21: a submission waiting for its attestation eventually stops waiting,
\* every submission that stopped waiting has returned accepted or rejected,
\* and a call that times out is answered with a rejection.
C21_EveryEvaluationEnds ==
    /\ \A r \in Reqs : Pending(r) ~> ~Pending(r)
    /\ [](/\ NoneLost
          /\ Evaluated => (last.accepted \/ last.rejected_by \in
                                               {"captcha", "rate", "content"}))
    /\ verify_recaptcha_response(TimedOut) =
          Returned(FALSE, Msg("Error verificando CAPTCHA", 0, 0))

\* the call of a submission ended without a valid answer, the submission is
\* rejected and nothing is pending
C21_Witness ==
    /\ Evaluated
    /\ last.calls = 1
    /\ last.rejected_by = "captcha"
    /\ last.reason.text = "Error verificando CAPTCHA"
    /\ nsubmits = MaxSubmits
    /\ \A r \in Reqs : ~Pending(r)

(***************************************************************************)
(* Windows of the rate limiter (SpecRL)                                    *)
(***************************************************************************)
\* the window a check inspected, after its popleft loop
Pruned(e) == IF e.ok THEN SubSeq(e.after, 1, Len(e.after) - 1) ELSE e.after

Chronological(w) == \A k \in 1..(Len(w) - 1) : w[k] <= w[k + 1]

Categories == {"price", "review"}

TableOf(cat) == IF cat = "price" THEN _price_reports ELSE _reviews
TableOfNext(cat) == IF cat = "price" THEN _price_reports' ELSE _reviews'

\* a rate-limit check is made in this step
Checks == Len(rl_log') = Len(rl_log) + 1

\* C22: the window a check has pruned holds no timestamp older than the
\* time of the check minus the window duration of its category.
C22_NoStaleAfterPruning ==
    \A i \in 1..Len(rl_log) :
        \A k \in 1..Len(Pruned(rl_log[i])) :
            Pruned(rl_log[i])[k] >= rl_log[i].now - Window(rl_log[i].cat)

\* a check found two expired timestamps and one live one, and kept the live
C22_Witness ==
    \E i \in 1..Len(rl_log) :
        /\ Len(rl_log[i].before) = 3
        /\ rl_log[i].before[2] < rl_log[i].now - Window(rl_log[i].cat)
        /\ Len(Pruned(rl_log[i])) = 1

\* C24: a check for one address in one category leaves the windows of every
\* other address, and the window of that address in the other category, as
\* they were, and its answer depends on the window of its own address and
\* category alone.
C24_PartitionedWindows ==
    [][ Checks =>
          LET e == rl_log'[Len(rl_log')] IN
          /\ \A ip \in IPs, cat \in Categories :
                (ip # e.ip \/ cat # e.cat) => TableOfNext(cat)[ip] = TableOf(cat)[ip]
          /\ e.before = TableOf(e.cat)[e.ip]
          /\ e.ok <=> Len(Live(e.before, e.cat, e.now)) < Limit(e.cat) ]_vars

\* the review quota of one address is exhausted and the next check, for
\* another address or for the other category, is allowed at the same time
C24_Witness ==
    /\ Len(rl_log) = 4
    /\ rl_log[3].cat = "review"
    /\ ~rl_log[3].ok
    /\ rl_log[4].now = rl_log[3].now
    /\ rl_log[4].ok
    /\ \/ rl_log[4].ip # rl_log[3].ip /\ rl_log[4].cat = "review"
       \/ rl_log[4].ip = rl_log[3].ip /\ rl_log[4].cat = "price"

\* C26: every window is in chronological order, and the popleft loop of a
\* check removes exactly the timestamps older than the cutoff: what it
\* leaves is the subsequence of the timestamps that are not expired.
C26_ChronologicalWindows ==
    /\ \A ip \in IPs : Chronological(_price_reports[ip]) /\ Chronological(_reviews[ip])
    /\ \A i \in 1..Len(rl_log) :
          /\ Chronological(rl_log[i].before)
          /\ Chronological(rl_log[i].after)
          /\ Pruned(rl_log[i]) = Live(rl_log[i].before, rl_log[i].cat, rl_log[i].now)
          /\ rl_log[i].ok => rl_log[i].after[Len(rl_log[i].after)] = rl_log[i].now

\* a window of two different timestamps, the older one expired at a later
\* check that keeps the newer one
C26_Witness ==
    \E i \in 1..Len(rl_log) :
        /\ Len(rl_log[i].before) = 2
        /\ rl_log[i].before[1] < rl_log[i].before[2]
        /\ rl_log[i].before[1] < rl_log[i].now - Window(rl_log[i].cat)
        /\ Pruned(rl_log[i]) = <<rl_log[i].before[2]>>

\* C28: a timestamp exactly as old as the window duration is kept by the
\* check and counted; a full window whose oldest timestamp is exactly that
\* old is rejected, and a check allowed on a full window comes strictly
\* later than the window duration after the oldest timestamp.
C28_StrictPruning ==
    \A i \in 1..Len(rl_log) :
        LET e == rl_log[i]
            cutoff == e.now - Window(e.cat)
        IN  /\ \A k \in 1..Len(e.before) :
                  e.before[k] = cutoff =>
                      /\ \E m \in 1..Len(Pruned(e)) : Pruned(e)[m] = cutoff
                      /\ e.count >= Len(e.before) - k + 1
            /\ (Len(e.before) = Limit(e.cat) /\ e.before[1] = cutoff) => ~e.ok
            /\ (Len(e.before) = Limit(e.cat) /\ e.ok) => e.now - e.before[1] > Window(e.cat)

\* three price reports at one instant, the fourth exactly one hour later
\* is rejected with all three still counted
C28_Witness ==
    /\ Len(rl_log) = 4
    /\ rl_log[4].cat = "price"
    /\ Len(rl_log[4].before) = price_reports_per_hour
    /\ rl_log[4].before[1] = rl_log[4].now - PriceWindowSecs
    /\ ~rl_log[4].ok
    /\ rl_log[4].count = price_reports_per_hour

(***************************************************************************)
(* Stages of an evaluation (Spec)                                          *)
(***************************************************************************)
\* the content check of either pipeline, as a predicate of the form
ContentValid(form) ==
    IF form.kind = "price"
    THEN /\ form.price_ok
         /\ HasRange(form.fuel_type) => InRange(form.fuel_type, form.price)
    ELSE review_content(form).valid

\* C23: a submission is received idle or waits for its attestation and
\* returns from there; the stages it went through are attestation, then the
\* rate limit, then the content check, a rejection comes from the last stage
\* it entered and ends it, and an accepted submission carried a token, found
\* room in its window, was recorded there and has valid content.
C23_StageProgression ==
    [][ /\ \A r \in Reqs :
              /\ (req'[r].pc = "captcha" /\ req[r].pc # "captcha") =>
                     (req[r].pc = "idle" /\ ~Returns)
              /\ (req[r].pc = "captcha" /\ req'[r].pc # "captcha") =>
                     req'[r].pc = "idle"
        /\ Returns =>
              /\ last'.seq = last.seq + 1
              /\ \E r \in Reqs : req[r].pc \in {"idle", "captcha"} /\ req'[r].pc = "idle"
              /\ \E n \in 1..3 : last'.gates = SubSeq(AllGates, 1, n)
              /\ last'.accepted \/ last'.rejected_by = last'.gates[Len(last'.gates)]
              /\ last'.accepted =>
                    /\ last'.gates = AllGates
                    /\ ~Falsy(last'.form.token)
                    /\ Len(Live(Table(last'.form.kind)[last'.ip],
                                Cat(last'.form.kind), clock)) < Limit(Cat(last'.form.kind))
                    /\ TableNext(last'.form.kind)[last'.ip] =
                          Append(Live(Table(last'.form.kind)[last'.ip],
                                      Cat(last'.form.kind), clock), clock)
                    /\ ContentValid(last'.form)
              /\ (~last'.accepted /\ ContentValid(last'.form)) =>
                    last'.rejected_by \in {"captcha", "rate"} ]_vars

\* a price report accepted after its attestation call, that took the last
\* free slot of its window
C23_Witness ==
    /\ Evaluated
    /\ last.accepted
    /\ last.calls = 1
    /\ last.form.kind = "price"
    /\ last.gates = AllGates
    /\ Len(_price_reports[last.ip]) = price_reports_per_hour

(***************************************************************************)
(* The price samples (Spec)                                                *)
(***************************************************************************)
\* C25: no step of an evaluation, whether it sends the attestation call,
\* rejects at any gate or accepts, changes the table of price samples: the
\* table holds the same rows, in the same order, as before the step.
C25_GateReadsSamplesOnly ==
    [][ (Returns \/ \E r \in Reqs : req'[r] # req[r]) =>
            /\ Len(gas_prices') = Len(gas_prices)
            /\ \A k \in 1..Len(gas_prices) : gas_prices'[k] = gas_prices[k] ]_vars

\* a price report went through the price validator and was accepted, after
\* another submission had been evaluated, and the samples are those of the
\* start
C25_Witness ==
    /\ Evaluated
    /\ last.seq >= 2
    /\ last.accepted
    /\ last.form.kind = "price"
    /\ gas_prices = InitPrices

(***************************************************************************)
(* Windows under concurrent evaluations (SpecConc)                         *)
(***************************************************************************)
\* C27: whatever step is taken while submissions are in flight, no window
\* holds more timestamps than the limit of its category afterwards; and a
\* submission rejected by the rate limit found exactly that many live
\* timestamps in its window, is told so (count = limit) and leaves the live
\* timestamps as the window.
C27_WindowsBoundedUnderInterleaving ==
    [][ /\ \A cat \in Categories, ip \in IPs :
              Len(TableOfNext(cat)[ip]) <= Limit(cat)
        /\ (Returns /\ last'.rejected_by = "rate") =>
              LET cat == Cat(last'.form.kind)
                  live == Live(TableOf(cat)[last'.ip], cat, clock)
              IN  /\ Len(live) = Limit(cat)
                  /\ last'.reason.a = Limit(cat)
                  /\ last'.reason.b = Limit(cat)
                  /\ TableOfNext(cat)[last'.ip] = live ]_vars

\* three reviews of one address overlap: the first returned and its slot
\* was submitted to again while the second was still in flight; the third
\* to return is rejected with 2/2
C27_Witness ==
    /\ last.seq = 3
    /\ arrived[1] = 1
    /\ arrived[2] = 0
    /\ last.form.kind = "review"
    /\ last.rejected_by = "rate"
    /\ last.reason.a = reviews_per_day
    /\ last.reason.b = reviews_per_day
    /\ Len(_reviews[last.ip]) = reviews_per_day

(***************************************************************************)
(* The request handlers (SpecHandler)                                      *)
(***************************************************************************)
\* the rows the handlers have written
Written == <<db.reports, db.prices, db.reviews>>
WrittenNext == <<db'.reports, db'.prices, db'.reviews>>

\* the slot of the evaluation that returns in this step was recorded
SlotConsumed ==
    /\ TableNext(last'.form.kind)[last'.ip] # <<>>
    /\ TableNext(last'.form.kind)[last'.ip][Len(TableNext(last'.form.kind)[last'.ip])] = clock

ReturnsUnparsed == Returns /\ last'.form.kind = "price" /\ ~last'.form.price_ok

\* C30: a price report whose price cannot be parsed is never accepted.  When
\* attestation and the rate limit let it through, its reason is the bare
\* "Precio invalido", its timestamp has been appended to the live part of
\* its window, and the answer the price validator would give for its fuel
\* type plays no part: the report is rejected even where the validator
\* would accept.  Before that it is rejected by attestation or by the rate
\* limit like any other report.
C30_UnparsedPriceRejectedAfterGates ==
    [][ ReturnsUnparsed =>
          LET window == _price_reports[last'.ip]
              live == Live(window, "price", clock)
          IN  /\ ~last'.accepted
              /\ last'.rejected_by \in {"captcha", "rate", "content"}
              /\ last'.rejected_by # "content" =>
                    /\ last'.reason.text # "Precio invalido"
                    /\ last'.reason.prefix \in {"CAPTCHA: ", "Rate limit: "}
              /\ last'.rejected_by = "content" =>
                    /\ last'.gates = AllGates
                    /\ last'.reason =
                          [prefix |-> "", text |-> "Precio invalido", a |-> 0, b |-> 0]
                    /\ Len(live) < price_reports_per_hour
                    /\ _price_reports'[last'.ip] = Append(live, clock)
                    /\ validate_price_dynamically(last'.form.fuel_type,
                                                  last'.form.price).valid ]_vars

\* a report with an unparsable price went through attestation and the rate
\* limit after another report had: it is rejected with "Precio invalido"
\* and both are counted in the window
C30_Witness ==
    /\ last.seq >= 2
    /\ last.form.kind = "price"
    /\ ~last.form.price_ok
    /\ last.rejected_by = "content"
    /\ last.reason.text = "Precio invalido"
    /\ last.calls = 1
    /\ Len(_price_reports[last.ip]) = 2
    /\ nsubmits = 2

=============================================================================
